---- MODULE Spec2Model ----
(***************************************************************************)
(* The agent manager and the base-agent execution lifecycle of the         *)
(* chronicler client (agents/agent_manager.py, agents/base_agent.py,       *)
(* agents/chronicler_agent.py, agents/mcp_agent.py).                       *)
(*                                                                         *)
(* Every coroutine runs on one asyncio event loop: code between two        *)
(* suspension points is one atomic step.  A state of this model is a       *)
(* point at which the event loop may switch to another coroutine.          *)
(***************************************************************************)
EXTENDS Integers, Sequences, FiniteSets, TLC

\* ------------------------------------------------------------------ bounds
\* Coroutines of callers that may be in flight at the same time.
MaxTasks == 2
\* Calls of BaseAgent.execute (each draws one uuid4 request id).
MaxExecutions == 2
\* Largest elapsed time, in clock ticks, that time.time() differences show.
MaxDuration == 1
\* Tool calls in one batch handed to MCPAgent._execute_tool_calls.
MaxCalls == 2

\* ------------------------------------------------------- program constants
\* base_agent.py: "Keep only last 100 execution times".
ExecutionTimesCap == 100
\* agent_manager.py: "Keep only last 1000 requests" / "response times".
HistoryCap == 1000

\* ------------------------------------------------------------- vocabulary
None == "None"

IDLE == "idle"
RUNNING == "running"
ERROR == "error"
DISABLED == "disabled"
AgentStatus == {IDLE, RUNNING, ERROR, DISABLED}

Tasks == 1..MaxTasks
\* An elapsed time spans at least one tick; a Response an agent builds
\* reports execution_time=0.0, which no measured duration equals.
Durations == 1..MaxDuration

\* The agent objects of the run, each built from its own AgentConfig.  o1
\* and o2 carry the same agent_id with different types and capabilities, so
\* that a duplicate registration with a different object can happen; o2 and
\* o3 share a type and a capability, o1 and o3 share a capability.
Objs == {"o1", "o2", "o3"}
AgentIds == {"a1", "a2"}

AgentClass(o) == IF o = "o2" THEN "MCPAgent" ELSE "ChroniclerAgent"

agent_id(o) == IF o = "o3" THEN "a2" ELSE "a1"

agent_type(o) == IF o = "o1" THEN "audit" ELSE "general"

capabilities(o) ==
    CASE o = "o1" -> {"audit_logging", "blockchain_interaction"}
      [] o = "o2" -> {"mcp_protocol", "text_generation"}
      [] o = "o3" -> {"audit_logging", "text_generation"}

\* The types and capabilities callers ask for ("mcp" and "web_search" are
\* held by no agent of the run).
AgentTypes == {"audit", "general", "mcp"}
AgentCapabilities ==
    {"audit_logging", "blockchain_interaction", "mcp_protocol",
     "text_generation", "web_search"}

\* Input payloads: a mapping (whatever its keys), and a value that is no
\* mapping at all, such as the arguments["input_data"] of a tool call.
Inputs == {"mapping", "malformed"}

\* ------------------------------------------------------------------ state
VARIABLES
    agents,              \* AgentManager.agents: dict id -> agent object
    agent_types,         \* AgentManager.agent_types: dict id -> type
    agent_capabilities,  \* AgentManager.agent_capabilities: dict id -> caps
    request_history,     \* AgentManager.request_history
    response_times,      \* AgentManager.response_times
    request_stats,       \* AgentManager.request_stats (defaultdict(int))
    error_stats,         \* AgentManager.error_stats (defaultdict(int))
    status,              \* BaseAgent.status, per object
    request_count,       \* BaseAgent.request_count, per object
    error_count,         \* BaseAgent.error_count, per object
    execution_times,     \* BaseAgent.execution_times, per object
    init_task,           \* the background initialization task of each object
    tasks,               \* the callers' coroutines and where each is suspended
    next_request_id,     \* number of request ids drawn so far
    ret,                 \* what the operation that returned last returned
    registration_order,  \* history: the registered ids, earliest registration first
    completed,           \* history: executions that left the context, per object
    faulted,             \* history: executions that ended in an error Response
    health_check_task,   \* AgentManager.health_check_task: None or the task's state
    health_log           \* history: what the last inspection cycle saw, per agent

managerVars ==
    <<agents, agent_types, agent_capabilities, request_history, response_times,
      request_stats, error_stats>>
agentVars == <<status, request_count, error_count, execution_times, init_task>>
historyVars == <<registration_order, completed, faulted>>
supervisorVars == <<health_check_task, health_log>>
vars ==
    <<managerVars, agentVars, historyVars, tasks, next_request_id, ret,
      supervisorVars>>

\* ------------------------------------------- Python dict, insertion ordered
\* A dict is the sequence of its items in insertion order.
Keys(d) == {d[i].key : i \in 1..Len(d)}

Lookup(d, k) == d[CHOOSE i \in 1..Len(d) : d[i].key = k].value

\* d[k] = v : a new key goes last, an existing key keeps its place.
DictSet(d, k, v) ==
    IF k \in Keys(d)
    THEN [i \in 1..Len(d) |->
            IF d[i].key = k THEN [key |-> k, value |-> v] ELSE d[i]]
    ELSE Append(d, [key |-> k, value |-> v])

\* A del that removes nothing.
DictKeep(d, k) == d

\* del d[k]
DictDel(d, k) == SelectSeq(d, LAMBDA e : e.key # k)

\* A trim that never evicts.
KeepAll(s, n) == s

\* A trim that evicts the newest entries instead of the oldest.
DropNewest(s, n) == IF Len(s) > n THEN SubSeq(s, 1, n) ELSE s

\* lst[-n:]
LastN(s, n) == IF Len(s) > n THEN SubSeq(s, Len(s) - n + 1, Len(s)) ELSE s

RECURSIVE SumOver(_, _)
SumOver(f, S) ==
    IF S = {} THEN 0
    ELSE LET x == CHOOSE y \in S : TRUE IN f[x] + SumOver(f, S \ {x})

\* A new call runs in the first coroutine slot that is free.
Free(tk, t) ==
    /\ tk[t].pc = "idle"
    /\ \A u \in 1..(t - 1) : tk[u].pc # "idle"

IdleTask ==
    [pc |-> "idle", op |-> None, agent_id |-> None, obj |-> None,
     overlapped |-> FALSE]

\* What the call that returned last returned: kind is "value" (val is the
\* value) or "none" (the call returned None); log is the warning or error
\* the call logged before returning, if any; arg is the agent object a
\* register_agent call was given.
Returned(op, kind, val, log) ==
    [op |-> op, arg |-> None, kind |-> kind, val |-> val, log |-> log]


\* -------------------------------------------------------------------- Init
\* A manager right after AgentManager() and three agent objects after their
\* constructors: idle, no counters.  The initialization task an MCPAgent
\* spawns waits for the protocol endpoint and is still pending; the one a
\* ChroniclerAgent spawns calls only the in-memory registry service, which
\* neither suspends nor fails (is_valid_agent returns True), so it has run
\* to its end at the first turn of the event loop without touching status.
Init ==
    /\ agents = <<>>
    /\ agent_types = <<>>
    /\ agent_capabilities = <<>>
    /\ request_history = <<>>
    /\ response_times = <<>>
    /\ request_stats = [a \in AgentIds |-> 0]
    /\ error_stats = [a \in AgentIds |-> 0]
    /\ status = [o \in Objs |-> IDLE]
    /\ request_count = [o \in Objs |-> 0]
    /\ error_count = [o \in Objs |-> 0]
    /\ execution_times = [o \in Objs |-> <<>>]
    /\ init_task = [o \in Objs |->
                       IF AgentClass(o) = "MCPAgent" THEN "pending" ELSE "done"]
    /\ tasks = [t \in Tasks |-> IdleTask]
    /\ next_request_id = 0
    /\ ret = Returned("init", "none", None, None)
    /\ registration_order = <<>>
    /\ completed = [o \in Objs |-> 0]
    /\ faulted = [o \in Objs |-> 0]
    /\ health_check_task = None
    /\ health_log = <<>>

\* ------------------------------------------------------ background init
\* ChroniclerAgent._initialize_blockchain / MCPAgent._initialize_mcp, the task
\* the constructor spawns: it runs at some later suspension point and either
\* completes or, when a collaborator call fails, sets the status to ERROR.
InitializeDone(o) ==
    /\ init_task[o] = "pending"
    /\ init_task' = [init_task EXCEPT ![o] = "done"]
    /\ UNCHANGED <<managerVars, status, request_count, error_count,
                   execution_times, historyVars, tasks, next_request_id, ret>>
    /\ UNCHANGED supervisorVars

InitializeFailed(o) ==
    /\ init_task[o] = "pending"
    /\ init_task' = [init_task EXCEPT ![o] = "failed"]
    /\ status' = [status EXCEPT ![o] = ERROR]
    /\ UNCHANGED <<managerVars, request_count, error_count, execution_times,
                   historyVars, tasks, next_request_id, ret>>
    /\ UNCHANGED supervisorVars

\* ---------------------------------------------------------- register_agent
\* The three stores of register_agent: no suspension point between them.
StoreAgent(o) ==
    /\ agents' = DictSet(agents, agent_id(o), o)
    /\ agent_types' = DictSet(agent_types, agent_id(o), agent_type(o))
    /\ agent_capabilities' =
           DictSet(agent_capabilities, agent_id(o), capabilities(o))

\* A registration that starts the statistics of its id afresh.
RegisterAgentResetsStats(o) ==
    /\ IF agent_id(o) \in Keys(agents)
       THEN /\ ret' = [Returned("register_agent", "value", FALSE,
                                "already registered") EXCEPT !.arg = o]
            /\ UNCHANGED <<agents, agent_types, agent_capabilities,
                           registration_order, request_stats, error_stats>>
       ELSE /\ StoreAgent(o)
            /\ registration_order' = Append(registration_order, agent_id(o))
            /\ request_stats' = [request_stats EXCEPT ![agent_id(o)] = 0]
            /\ error_stats' = [error_stats EXCEPT ![agent_id(o)] = 0]
            /\ ret' = [Returned("register_agent", "value", TRUE, None)
                          EXCEPT !.arg = o]
    /\ UNCHANGED <<request_history, response_times,
                   agentVars, completed, faulted, tasks, next_request_id>>
    /\ UNCHANGED supervisorVars

\* A registration without the duplicate check: the new object replaces the
\* one stored under the id.
RegisterAgentOverwrites(o) ==
    /\ StoreAgent(o)
    /\ registration_order' =
           Append(SelectSeq(registration_order, LAMBDA a : a # agent_id(o)),
                  agent_id(o))
    /\ ret' = [Returned("register_agent", "value", TRUE, None)
                  EXCEPT !.arg = o]
    /\ UNCHANGED <<request_history, response_times, request_stats, error_stats,
                   agentVars, completed, faulted, tasks, next_request_id>>
    /\ UNCHANGED supervisorVars

RegisterAgent(o) ==
    /\ IF agent_id(o) \in Keys(agents)
       THEN /\ ret' = [Returned("register_agent", "value", FALSE,
                                "already registered") EXCEPT !.arg = o]
            /\ UNCHANGED <<agents, agent_types, agent_capabilities,
                           registration_order>>
       ELSE /\ StoreAgent(o)
            /\ registration_order' = Append(registration_order, agent_id(o))
            /\ ret' = [Returned("register_agent", "value", TRUE, None)
                          EXCEPT !.arg = o]
    /\ UNCHANGED <<request_history, response_times, request_stats, error_stats,
                   agentVars, completed, faulted, tasks, next_request_id>>
    /\ UNCHANGED supervisorVars

\* ------------------------------------------------------------- shutdown
\* An execution in flight on o has now been overlapped by another operation.
MarkOverlapped(tk, S) ==
    [t \in Tasks |->
        IF tk[t].pc = "processing" /\ tk[t].obj \in S
        THEN [tk[t] EXCEPT !.overlapped = TRUE]
        ELSE tk[t]]

\* BaseAgent.shutdown after its wait: current_task is never assigned, so
\* nothing is cancelled and the status becomes DISABLED.  MCPAgent.shutdown
\* closes the client first; when close() raises, the handler logs and
\* BaseAgent.shutdown is not reached.
ShutdownStatus(st, o, closeOk) ==
    IF AgentClass(o) = "MCPAgent" /\ ~closeOk
    THEN st
    ELSE [st EXCEPT ![o] = DISABLED]

\* ------------------------------------------------------- unregister_agent
\* A removal that forgets the type index.
RemoveAgentKeepsType(id) ==
    /\ agents' = DictDel(agents, id)
    /\ agent_capabilities' = DictDel(agent_capabilities, id)
    /\ registration_order' = SelectSeq(registration_order, LAMBDA a : a # id)
    /\ UNCHANGED agent_types

\* The three deletions of unregister_agent.
RemoveAgent(id) ==
    /\ agents' = DictDel(agents, id)
    /\ agent_types' = DictDel(agent_types, id)
    /\ agent_capabilities' = DictDel(agent_capabilities, id)
    /\ registration_order' = SelectSeq(registration_order, LAMBDA a : a # id)

\* unregister_agent up to the return, or up to the suspension inside
\* MCPAgent.shutdown (await self.mcp_client.close()).
UnregisterAgent(t, id) ==
    /\ Free(tasks, t)
    /\ IF id \notin Keys(agents)
       THEN /\ ret' = Returned("unregister_agent", "value", FALSE,
                               "not found")
            /\ UNCHANGED <<agents, agent_types, agent_capabilities, status,
                           tasks, registration_order>>
       ELSE LET o == Lookup(agents, id) IN
            \/ \* shutdown runs to its end without suspending
               \E closeOk \in BOOLEAN :
                 /\ status' = ShutdownStatus(status, o, closeOk)
                 /\ RemoveAgent(id)
                 /\ tasks' = MarkOverlapped(tasks, {o})
                 /\ ret' = Returned("unregister_agent", "value", TRUE,
                                    None)
            \/ \* the client's close() suspends
               /\ AgentClass(o) = "MCPAgent"
               /\ tasks' = [MarkOverlapped(tasks, {o}) EXCEPT
                              ![t] = [IdleTask EXCEPT !.pc = "closing",
                                         !.op = "unregister_agent",
                                         !.agent_id = id, !.obj = o]]
               /\ UNCHANGED <<agents, agent_types, agent_capabilities, status,
                              ret, registration_order>>
    /\ UNCHANGED <<request_history, response_times, request_stats, error_stats,
                   request_count, error_count, execution_times, init_task,
                   completed, faulted, next_request_id>>
    /\ UNCHANGED supervisorVars

\* A resumed unregister_agent that reports success when the id is gone.
UnregisterAgentResumeIgnoresMissing(t) ==
    /\ tasks[t].pc = "closing"
    /\ tasks[t].op = "unregister_agent"
    /\ LET id == tasks[t].agent_id
           o == tasks[t].obj
       IN \E closeOk \in BOOLEAN :
            /\ status' = ShutdownStatus(status, o, closeOk)
            /\ IF id \in Keys(agents)
               THEN RemoveAgent(id)
               ELSE UNCHANGED <<agents, agent_types, agent_capabilities,
                                registration_order>>
            /\ ret' = Returned("unregister_agent", "value", TRUE, None)
            /\ tasks' = [MarkOverlapped(tasks, {o}) EXCEPT ![t] = IdleTask]
    /\ UNCHANGED <<request_history, response_times, request_stats, error_stats,
                   request_count, error_count, execution_times, init_task,
                   completed, faulted, next_request_id>>
    /\ UNCHANGED supervisorVars

\* unregister_agent resumed after close(): the rest of shutdown, then the
\* deletions; del self.agents[agent_id] raises KeyError when the id has been
\* removed meanwhile, and the handler returns False.
UnregisterAgentResume(t) ==
    /\ tasks[t].pc = "closing"
    /\ tasks[t].op = "unregister_agent"
    /\ LET id == tasks[t].agent_id
           o == tasks[t].obj
       IN \E closeOk \in BOOLEAN :
            /\ status' = ShutdownStatus(status, o, closeOk)
            /\ IF id \in Keys(agents)
               THEN /\ RemoveAgent(id)
                    /\ ret' = Returned("unregister_agent", "value", TRUE,
                                       None)
               ELSE /\ UNCHANGED <<agents, agent_types, agent_capabilities,
                                   registration_order>>
                    /\ ret' = Returned("unregister_agent", "value", FALSE,
                                       "failed to unregister")
            /\ tasks' = [MarkOverlapped(tasks, {o}) EXCEPT ![t] = IdleTask]
    /\ UNCHANGED <<request_history, response_times, request_stats, error_stats,
                   request_count, error_count, execution_times, init_task,
                   completed, faulted, next_request_id>>
    /\ UNCHANGED supervisorVars


\* ------------------------------------------------------ BaseAgent.execute
\* AgentResponse as the agents build it (execution_time=0.0).
AgentResponse(o, st) ==
    [agent_id |-> agent_id(o), status |-> st, execution_time |-> 0]

\* An entry that does not count the request.
ExecutionContextEnterNoCount(o) ==
    /\ status' = [status EXCEPT ![o] = RUNNING]
    /\ request_count' = request_count

\* The entry of _execution_context, before the yield.
ExecutionContextEnter(o) ==
    /\ status' = [status EXCEPT ![o] = RUNNING]
    /\ request_count' = [request_count EXCEPT ![o] = @ + 1]

\* The exit of _execution_context: the except clause when the body raised an
\* Exception, then the finally clause.  d is time.time() - start_time.
ExecutionContextExit(o, raised, d) ==
    /\ error_count' = [error_count EXCEPT ![o] = IF raised THEN @ + 1 ELSE @]
    /\ execution_times' =
           [execution_times EXCEPT
              ![o] = LastN(Append(@, d), ExecutionTimesCap)]
    /\ status' = [status EXCEPT ![o] = IDLE]

\* What the processing step can end with: the handlers build a "success"
\* Response; an unknown action_type, a failing handler or a failing protocol
\* endpoint raises inside the try of process_request, whose except clause
\* builds an "error" Response.  Both concrete process_request bodies catch
\* every Exception inside the context, so its body never raises one.
Outcomes == {"success", "error"}

\* execute_request from agent.execute(...) to the first suspension point of
\* process_request.  BaseAgent.execute draws the request id and builds the
\* AgentRequest: pydantic rejects an input that is no mapping, execute raises
\* and the handler of execute_request counts an error and returns None.
\* Otherwise process_request enters the context and suspends in its first
\* collaborator call.
AgentExecute(t, o, inp) ==
    /\ next_request_id < MaxExecutions
    /\ next_request_id' = next_request_id + 1
    /\ IF inp = "malformed"
       THEN /\ error_stats' = [error_stats EXCEPT ![agent_id(o)] = @ + 1]
            /\ ret' = Returned("execute_request", "none", None,
                               "error executing request")
            /\ UNCHANGED <<status, request_count, tasks>>
       ELSE /\ ExecutionContextEnter(o)
            /\ tasks' =
                 [MarkOverlapped(tasks, {o}) EXCEPT
                    ![t] = [pc |-> "processing", op |-> "execute_request",
                            agent_id |-> agent_id(o), obj |-> o,
                            overlapped |->
                                \E u \in Tasks : /\ tasks[u].pc # "idle"
                                                 /\ tasks[u].obj = o]]
            /\ UNCHANGED <<error_stats, ret>>

\* -------------------------------------------------------- execute_request
\* Availability checks that let an agent in ERROR through.
RejectionUnknownOnly(id) ==
    IF id \notin Keys(agents) THEN "not found" ELSE None

\* The availability checks of execute_request: the log line of the check
\* that rejects the call, or None when the call goes on to the agent.
Rejection(id) ==
    IF id \notin Keys(agents) THEN "not found"
    ELSE IF status[Lookup(agents, id)] = ERROR THEN "error state"
    ELSE None

\* An execute_request that holds a manager-wide lock across the agent's
\* execution: it cannot start while another execution is in flight.
ExecuteRequestExclusive(t, id, inp) ==
    /\ Free(tasks, t)
    /\ \A u \in Tasks : tasks[u].pc # "processing"
    /\ IF Rejection(id) # None
       THEN /\ ret' = Returned("execute_request", "none", None,
                               Rejection(id))
            /\ UNCHANGED <<error_stats, status, request_count, tasks,
                           next_request_id>>
       ELSE AgentExecute(t, Lookup(agents, id), inp)
    /\ UNCHANGED <<agents, agent_types, agent_capabilities, request_history,
                   response_times, request_stats, error_count, execution_times,
                   init_task, historyVars>>
    /\ UNCHANGED supervisorVars

\* execute_request up to the return of None or to the first suspension point
\* inside the agent.
ExecuteRequest(t, id, inp) ==
    /\ Free(tasks, t)
    /\ IF Rejection(id) # None
       THEN /\ ret' = Returned("execute_request", "none", None,
                               Rejection(id))
            /\ UNCHANGED <<error_stats, status, request_count, tasks,
                           next_request_id>>
       ELSE AgentExecute(t, Lookup(agents, id), inp)
    /\ UNCHANGED <<agents, agent_types, agent_capabilities, request_history,
                   response_times, request_stats, error_count, execution_times,
                   init_task, historyVars>>
    /\ UNCHANGED supervisorVars

\* A bookkeeping that stores the Response as the agent built it, with the
\* agent's own execution_time.
TrackResponseKeepsAgentTime(id, response, d) ==
    /\ response_times' = LastN(Append(response_times, d), HistoryCap)
    /\ request_history' = LastN(Append(request_history, response), HistoryCap)
    /\ request_stats' = [request_stats EXCEPT ![id] = @ + 1]
    /\ error_stats' =
           [error_stats EXCEPT
              ![id] = IF response.status = "error" THEN @ + 1 ELSE @]

\* A bookkeeping that counts every Response as an error.
TrackResponseCountsError(id, response, d) ==
    /\ response_times' = LastN(Append(response_times, d), HistoryCap)
    /\ request_history' =
           LastN(Append(request_history, [response EXCEPT !.execution_time = d]),
                 HistoryCap)
    /\ request_stats' = [request_stats EXCEPT ![id] = @ + 1]
    /\ error_stats' = [error_stats EXCEPT ![id] = @ + 1]

\* The bookkeeping of execute_request after agent.execute returned response:
\* d is the manager's own measurement, which replaces the agent's.
TrackResponse(id, response, d) ==
    /\ response_times' = LastN(Append(response_times, d), HistoryCap)
    /\ request_history' =
           LastN(Append(request_history, [response EXCEPT !.execution_time = d]),
                 HistoryCap)
    /\ request_stats' = [request_stats EXCEPT ![id] = @ + 1]
    /\ error_stats' =
           [error_stats EXCEPT
              ![id] = IF response.status = "error" THEN @ + 1 ELSE @]

\* The processing step ends: the Response is built, the context is left,
\* execute returns and the manager's bookkeeping follows, with no suspension
\* point in between.
ProcessRequestReturn(t) ==
    /\ tasks[t].pc = "processing"
    /\ LET o == tasks[t].obj
           id == tasks[t].agent_id
       IN \E st \in Outcomes, d \in Durations,
             dm \in Durations :
            LET response == AgentResponse(o, st) IN
            /\ d <= dm
            /\ ExecutionContextExit(o, FALSE, d)
            /\ completed' = [completed EXCEPT ![o] = @ + 1]
            /\ faulted' =
                 [faulted EXCEPT ![o] = IF st = "error" THEN @ + 1 ELSE @]
            /\ TrackResponse(id, response, dm)
            /\ ret' = Returned("execute_request", "value",
                               [response EXCEPT !.execution_time = dm], None)
            /\ tasks' = [tasks EXCEPT ![t] = IdleTask]
    /\ UNCHANGED <<agents, agent_types, agent_capabilities, request_count,
                   init_task, registration_order, next_request_id>>
    /\ UNCHANGED supervisorVars

\* ------------------------------------------------------------ find_agent_*
Min(S) == CHOOSE x \in S : \A y \in S : x <= y

\* A lookup that does not look at the status.
find_agent_by_capability_any_status(capability) ==
    LET hits == {i \in 1..Len(agent_capabilities) :
                    capability \in agent_capabilities[i].value}
    IN IF hits = {} THEN None ELSE agent_capabilities[Min(hits)].key

\* find_agent_by_capability: the first item of agent_capabilities, in dict
\* order, that holds the capability and whose agent is not in ERROR.
find_agent_by_capability(capability) ==
    LET hits == {i \in 1..Len(agent_capabilities) :
                    /\ capability \in agent_capabilities[i].value
                    /\ status[Lookup(agents, agent_capabilities[i].key)] # ERROR}
    IN IF hits = {} THEN None ELSE agent_capabilities[Min(hits)].key

\* A lookup that returns the last match instead of the first.
find_agent_by_type_last_match(a_type) ==
    LET hits == {i \in 1..Len(agent_types) :
                    /\ agent_types[i].value = a_type
                    /\ status[Lookup(agents, agent_types[i].key)] # ERROR}
    IN IF hits = {} THEN None
       ELSE agent_types[CHOOSE x \in hits : \A y \in hits : x >= y].key

\* find_agent_by_type: the same over agent_types.
find_agent_by_type(a_type) ==
    LET hits == {i \in 1..Len(agent_types) :
                    /\ agent_types[i].value = a_type
                    /\ status[Lookup(agents, agent_types[i].key)] # ERROR}
    IN IF hits = {} THEN None ELSE agent_types[Min(hits)].key

\* A shutdown that gives up at the first agent whose shutdown fails: the
\* agents registered after it are never shut down.
ShutdownAbortsOnFailure ==
    \E failing \in SUBSET {o \in Objs : AgentClass(o) = "MCPAgent"} :
      LET registered == {Lookup(agents, id) : id \in Keys(agents)}
          failed == {i \in 1..Len(agents) : agents[i].value \in failing}
          stop == IF failed = {} THEN Len(agents) + 1 ELSE Min(failed)
          reached == {agents[i].value : i \in 1..(stop - 1)}
      IN
      /\ status' = [o \in Objs |-> IF o \in reached THEN DISABLED ELSE status[o]]
      /\ tasks' = MarkOverlapped(tasks, registered)
      /\ ret' = Returned("shutdown", "none", None, None)
      /\ UNCHANGED <<managerVars, request_count, error_count, execution_times,
                     init_task, historyVars, next_request_id>>
      /\ UNCHANGED supervisorVars

\* ------------------------------------------------- execute_with_capability
\* A composition that hands the request to any registered holder of the
\* capability, whatever its place and status.
ExecuteWithCapabilityAnyHolder(t, capability, inp) ==
    /\ Free(tasks, t)
    /\ \E i \in 1..Len(agent_capabilities) :
          /\ capability \in agent_capabilities[i].value
          /\ ExecuteRequest(t, agent_capabilities[i].key, inp)

\* execute_with_capability: the lookup, which has no suspension point, then
\* either the error log and None, or execute_request for the id found.
ExecuteWithCapability(t, capability, inp) ==
    /\ Free(tasks, t)
    /\ LET id == find_agent_by_capability(capability) IN
       IF id # None
       THEN ExecuteRequest(t, id, inp)
       ELSE /\ ret' = Returned("execute_with_capability", "none", None,
                               "no agent found with capability")
            /\ UNCHANGED <<managerVars, agentVars, historyVars, tasks,
                           next_request_id, supervisorVars>>

\* ------------------------------------------------------ AgentManager.shutdown
\* shutdown: every registered agent's shutdown is gathered; an MCP agent
\* whose close() raises keeps its status.
Shutdown ==
    \E failing \in SUBSET {o \in Objs : AgentClass(o) = "MCPAgent"} :
      LET registered == {Lookup(agents, id) : id \in Keys(agents)} IN
      /\ status' = [o \in Objs |->
                      IF o \in registered /\ o \notin failing
                      THEN DISABLED ELSE status[o]]
      /\ tasks' = MarkOverlapped(tasks, registered)
      /\ ret' = Returned("shutdown", "none", None, None)
      /\ UNCHANGED <<managerVars, request_count, error_count, execution_times,
                     init_task, historyVars, next_request_id>>
      /\ UNCHANGED supervisorVars

\* ------------------------------------------------------------------- Next
Next ==
    \/ \E o \in Objs : InitializeDone(o)
    \/ \E o \in Objs : InitializeFailed(o)
    \/ \E o \in Objs : RegisterAgent(o)
    \/ \E t \in Tasks, id \in AgentIds : UnregisterAgent(t, id)
    \/ \E t \in Tasks : UnregisterAgentResume(t)
    \/ \E t \in Tasks, id \in AgentIds, inp \in Inputs : ExecuteRequest(t, id, inp)
    \/ \E t \in Tasks : ProcessRequestReturn(t)
    \/ Shutdown

Spec == Init /\ [][Next]_vars


\* ------------------------------------------------------------ read helpers
InFlight(o) == {t \in Tasks : tasks[t].pc = "processing" /\ tasks[t].obj = o}

Max(a, b) == IF a >= b THEN a ELSE b

\* get_health_status: error_rate is the fraction error_count over
\* max(request_count, 1), kept as numerator and denominator.
get_health_status(o) ==
    [agent_id |-> agent_id(o), status |-> status[o],
     request_count |-> request_count[o], error_count |-> error_count[o],
     error_rate |-> [num |-> error_count[o],
                     den |-> Max(request_count[o], 1)]]

\* Statistics that count every constructed agent object, registered or not.
get_manager_stats_all_objects ==
    [total_agents |-> Len(agents),
     active_agents |-> Cardinality({o \in Objs : status[o] = RUNNING}),
     idle_agents |-> Cardinality({o \in Objs : status[o] = IDLE}),
     error_agents |-> Cardinality({o \in Objs : status[o] = ERROR}),
     total_requests |-> SumOver(request_stats, DOMAIN request_stats),
     total_errors |-> SumOver(error_stats, DOMAIN error_stats)]

\* get_manager_stats, computed from the live collection and the counters.
get_manager_stats ==
    [total_agents |-> Len(agents),
     active_agents |-> Cardinality({id \in Keys(agents) :
                                      status[Lookup(agents, id)] = RUNNING}),
     idle_agents |-> Cardinality({id \in Keys(agents) :
                                    status[Lookup(agents, id)] = IDLE}),
     error_agents |-> Cardinality({id \in Keys(agents) :
                                     status[Lookup(agents, id)] = ERROR}),
     total_requests |-> SumOver(request_stats, DOMAIN request_stats),
     total_errors |-> SumOver(error_stats, DOMAIN error_stats)]

\* ------------------------------------------------ the manager, by capability
\* The same manager with its requests routed by capability.
NextCapability ==
    \/ \E o \in Objs : InitializeDone(o)
    \/ \E o \in Objs : InitializeFailed(o)
    \/ \E o \in Objs : RegisterAgent(o)
    \/ \E t \in Tasks, c \in AgentCapabilities, inp \in Inputs :
          ExecuteWithCapability(t, c, inp)
    \/ \E t \in Tasks : ProcessRequestReturn(t)
    \/ Shutdown

SpecCapability == Init /\ [][NextCapability]_vars

\* ------------------------------------------- the manager with its supervisor
\* AgentManager.__init__ under either value of config.enable_health_checks:
\* when it is set (the default) _initialize creates the health-check task,
\* which is suspended in asyncio.sleep from its first step on.
InitSupervisor ==
    /\ agents = <<>>
    /\ agent_types = <<>>
    /\ agent_capabilities = <<>>
    /\ request_history = <<>>
    /\ response_times = <<>>
    /\ request_stats = [a \in AgentIds |-> 0]
    /\ error_stats = [a \in AgentIds |-> 0]
    /\ status = [o \in Objs |-> IDLE]
    /\ request_count = [o \in Objs |-> 0]
    /\ error_count = [o \in Objs |-> 0]
    /\ execution_times = [o \in Objs |-> <<>>]
    /\ init_task = [o \in Objs |->
                       IF AgentClass(o) = "MCPAgent" THEN "pending" ELSE "done"]
    /\ tasks = [t \in Tasks |-> IdleTask]
    /\ next_request_id = 0
    /\ ret = Returned("init", "none", None, None)
    /\ registration_order = <<>>
    /\ completed = [o \in Objs |-> 0]
    /\ faulted = [o \in Objs |-> 0]
    /\ health_check_task \in {None, "sleeping"}
    /\ health_log = <<>>

\* What one pass of the for loop of _health_check_loop does with an agent:
\* get_health_status raised ("failed", logged as an error), the error rate
\* is above 0.5 ("warning", logged), or nothing.
Inspect(o, raises) ==
    IF raises THEN "failed"
    ELSE IF 2 * get_health_status(o).error_rate.num
              > get_health_status(o).error_rate.den
         THEN "warning"
         ELSE "ok"

\* A cycle that stops at the first agent whose inspection fails.
HealthCheckCycleStopsAtFailure ==
    /\ health_check_task = "sleeping"
    /\ \E failing \in SUBSET Keys(agents) :
         LET failed == {i \in 1..Len(agents) : agents[i].key \in failing}
             stop == IF failed = {} THEN Len(agents) ELSE Min(failed)
         IN health_log' =
                [i \in 1..stop |->
                    [agent_id |-> agents[i].key,
                     outcome |-> Inspect(agents[i].value,
                                         agents[i].key \in failing)]]
    /\ UNCHANGED <<managerVars, agentVars, historyVars, tasks,
                   next_request_id, ret, health_check_task>>

\* A supervisor that acts on what it sees: an agent whose inspection fails
\* is put in ERROR.
HealthCheckCycleMarksFailed ==
    /\ health_check_task = "sleeping"
    /\ \E failing \in SUBSET Keys(agents) :
         /\ health_log' =
              [i \in 1..Len(agents) |->
                  [agent_id |-> agents[i].key,
                   outcome |-> Inspect(agents[i].value,
                                       agents[i].key \in failing)]]
         /\ status' = [o \in Objs |->
                         IF \E id \in failing : Lookup(agents, id) = o
                         THEN ERROR ELSE status[o]]
    /\ UNCHANGED <<managerVars, request_count, error_count, execution_times,
                   init_task, historyVars, tasks, next_request_id, ret,
                   health_check_task>>

\* One cycle of _health_check_loop: the sleep is over and the for loop runs
\* over self.agents.items() without a suspension point; the inner try keeps
\* a get_health_status that raises from ending the loop.  The task then
\* sleeps again.
HealthCheckCycle ==
    /\ health_check_task = "sleeping"
    /\ \E failing \in SUBSET Keys(agents) :
         health_log' =
             [i \in 1..Len(agents) |->
                 [agent_id |-> agents[i].key,
                  outcome |-> Inspect(agents[i].value,
                                      agents[i].key \in failing)]]
    /\ UNCHANGED <<managerVars, agentVars, historyVars, tasks,
                   next_request_id, ret, health_check_task>>

\* A loop that swallows the cancellation and goes back to sleep.
HealthCheckIgnoresCancel ==
    /\ health_check_task = "cancelling"
    /\ health_check_task' = "sleeping"
    /\ UNCHANGED <<managerVars, agentVars, historyVars, tasks,
                   next_request_id, ret, health_log>>

\* The cancelled task runs: CancelledError is raised at asyncio.sleep, the
\* except clause breaks out of the loop and the task is done.
HealthCheckExit ==
    /\ health_check_task = "cancelling"
    /\ health_check_task' = "done"
    /\ UNCHANGED <<managerVars, agentVars, historyVars, tasks,
                   next_request_id, ret, health_log>>

\* The second half of AgentManager.shutdown, run by the coroutine tk[t]:
\* the gathered shutdowns of the registered agents, then the return.
ShutdownAgents(t) ==
    \E failing \in SUBSET {o \in Objs : AgentClass(o) = "MCPAgent"} :
      LET registered == {Lookup(agents, id) : id \in Keys(agents)} IN
      /\ status' = [o \in Objs |->
                      IF o \in registered /\ o \notin failing
                      THEN DISABLED ELSE status[o]]
      /\ tasks' = [MarkOverlapped(tasks, registered) EXCEPT ![t] = IdleTask]
      /\ ret' = Returned("shutdown", "none", None, None)
      /\ UNCHANGED <<managerVars, request_count, error_count, execution_times,
                     init_task, historyVars, next_request_id>>

\* A shutdown that cancels the health-check task and goes on to the agents
\* without awaiting it.
ShutdownBeginNoWait(t) ==
    /\ Free(tasks, t)
    /\ health_check_task' =
           IF health_check_task \in {None, "done"}
           THEN health_check_task ELSE "cancelling"
    /\ ShutdownAgents(t)
    /\ UNCHANGED health_log

\* AgentManager.shutdown up to its first suspension point: a health-check
\* task that exists and is not done is cancelled and awaited; otherwise the
\* call goes straight on to the agents.
ShutdownBegin(t) ==
    /\ Free(tasks, t)
    /\ IF health_check_task \in {None, "done"}
       THEN /\ ShutdownAgents(t)
            /\ UNCHANGED supervisorVars
       ELSE /\ health_check_task' = "cancelling"
            /\ tasks' = [tasks EXCEPT
                           ![t] = [pc |-> "awaiting_health", op |-> "shutdown",
                                   agent_id |-> None, obj |-> None,
                                   overlapped |-> FALSE]]
            /\ UNCHANGED <<managerVars, agentVars, historyVars,
                           next_request_id, ret, health_log>>

\* The awaited health-check task is done: CancelledError is caught and the
\* call goes on to the agents.
ShutdownResume(t) ==
    /\ tasks[t].pc = "awaiting_health"
    /\ health_check_task = "done"
    /\ ShutdownAgents(t)
    /\ UNCHANGED supervisorVars

NextSupervisor ==
    \/ \E o \in Objs : RegisterAgent(o)
    \/ \E t \in Tasks, id \in AgentIds, inp \in Inputs : ExecuteRequest(t, id, inp)
    \/ \E t \in Tasks : ProcessRequestReturn(t)
    \/ HealthCheckCycle
    \/ \E t \in Tasks : ShutdownBegin(t)
    \/ HealthCheckExit
    \/ \E t \in Tasks : ShutdownResume(t)

SpecSupervisor == InitSupervisor /\ [][NextSupervisor]_vars

\* The event loop runs every task that is ready: the cancelled health-check
\* task, and the shutdown call whose awaited task is done.
SpecSupervisorFair ==
    /\ SpecSupervisor
    /\ WF_vars(HealthCheckExit)
    /\ \A t \in Tasks : WF_vars(ShutdownResume(t))

\* ------------------------------------------- MCPAgent._execute_tool_calls
\* The manager and the agents as their constructors leave them, but for ret.
Constructed ==
    /\ agents = <<>>
    /\ agent_types = <<>>
    /\ agent_capabilities = <<>>
    /\ request_history = <<>>
    /\ response_times = <<>>
    /\ request_stats = [a \in AgentIds |-> 0]
    /\ error_stats = [a \in AgentIds |-> 0]
    /\ status = [o \in Objs |-> IDLE]
    /\ request_count = [o \in Objs |-> 0]
    /\ error_count = [o \in Objs |-> 0]
    /\ execution_times = [o \in Objs |-> <<>>]
    /\ init_task = [o \in Objs |->
                       IF AgentClass(o) = "MCPAgent" THEN "pending" ELSE "done"]
    /\ tasks = [t \in Tasks |-> IdleTask]
    /\ next_request_id = 0
    /\ registration_order = <<>>
    /\ completed = [o \in Objs |-> 0]
    /\ faulted = [o \in Objs |-> 0]
    /\ health_check_task = None
    /\ health_log = <<>>

\* A tool call as the protocol endpoint returned it.  shape: "wellformed";
\* "no_name", for which tool_call["function"]["name"] raises; or
\* "bad_arguments", for which json.loads of the arguments raises.  has_id:
\* whether the dict has an "id" (tool_call.get("id") is None when it has
\* not).  tool: whether mcp_client.call_tool returns ("ok") or raises.
ToolCalls ==
    [shape : {"wellformed", "no_name", "bad_arguments"},
     has_id : BOOLEAN,
     tool : {"ok", "raises"}]

ToolCallLists == UNION {[1..n -> ToolCalls] : n \in 0..MaxCalls}

\* The statements of the try block raise for this call: the subscripts,
\* json.loads, call_tool, or the construction of MCPToolResult, whose
\* tool_call_id is a required str and rejects None.
TryRaises(c) ==
    \/ c.shape # "wellformed"
    \/ c.tool = "raises"
    \/ ~c.has_id

\* The loop of _execute_tool_calls from call i on; bound tells whether the
\* local tool_name has been assigned, results is the list so far.  The
\* except clause formats tool_name into its log line (UnboundLocalError when
\* no iteration has assigned it) and constructs MCPToolResult with
\* tool_call.get("id") (ValidationError when that is None): an exception
\* raised there leaves the function.
RECURSIVE ExecuteToolCallsFrom(_, _, _, _)
ExecuteToolCallsFrom(calls, i, bound, results) ==
    IF i > Len(calls) THEN [kind |-> "value", val |-> results]
    ELSE LET c == calls[i]
             nowBound == bound \/ c.shape # "no_name"
         IN IF ~TryRaises(c)
            THEN ExecuteToolCallsFrom(
                     calls, i + 1, nowBound,
                     Append(results, [call |-> i, is_error |-> FALSE]))
            ELSE IF ~nowBound
                 THEN [kind |-> "raised", val |-> "UnboundLocalError"]
            ELSE IF ~c.has_id
                 THEN [kind |-> "raised", val |-> "ValidationError"]
            ELSE ExecuteToolCallsFrom(
                     calls, i + 1, nowBound,
                     Append(results, [call |-> i, is_error |-> TRUE]))

execute_tool_calls(calls) == ExecuteToolCallsFrom(calls, 1, FALSE, <<>>)

\* _execute_tool_calls is called with a batch: ret.arg is the batch.
InitToolCalls ==
    /\ Constructed
    /\ \E calls \in ToolCallLists :
          ret = [op |-> "_execute_tool_calls", arg |-> calls,
                 kind |-> "called", val |-> None, log |-> None]

\* The call runs to its end: it returns its list or raises.
ExecuteToolCalls ==
    /\ ret.op = "_execute_tool_calls"
    /\ ret.kind = "called"
    /\ ret' = [ret EXCEPT !.kind = execute_tool_calls(ret.arg).kind,
                          !.val = execute_tool_calls(ret.arg).val]
    /\ UNCHANGED <<managerVars, agentVars, historyVars, tasks,
                   next_request_id, supervisorVars>>

NextToolCalls == ExecuteToolCalls

SpecToolCalls == InitToolCalls /\ [][NextToolCalls]_vars

\* ------------------------------------------------------- process_request
\* action_type of the input of a ChroniclerAgent; "unknown" is any other.
\* The values of input_data["action_type"]; "absent" is an input_data
\* without the key.
ActionTypes ==
    {"absent", "audit", "registry", "access_control", "blockchain", "unknown"}

\* The collaborators an agent calls while it processes a request.  A
\* collaborator of the set fails of a call raises in each of its methods.
Collaborators ==
    {"chronicler_service", "access_control_service", "audit_service",
     "registry_service", "mcp_client"}

\* The inputs of one process_request: the agent, the action_type, whether
\* the rest of input_data is what the handler accepts (an operation the
\* registry or access_control handler knows, an action that validates as a
\* BlockchainAction), the config flags audit_enabled and log_output, the
\* failing collaborators.
Processings ==
    [obj : Objs, action_type : ActionTypes, well_formed : BOOLEAN,
     audit_enabled : BOOLEAN, log_output : BOOLEAN,
     fails : SUBSET Collaborators]

\* input_data.get("action_type", "audit")
action_type(p) ==
    IF p.action_type = "absent" THEN "audit" ELSE p.action_type

\* The handler process_request dispatches to; None for a tag it does not
\* know.  MCPAgent.process_request has one body and no dispatch.
Handler(p) ==
    IF AgentClass(p.obj) = "MCPAgent" THEN "mcp"
    ELSE CASE action_type(p) = "audit" -> "_handle_audit_request"
           [] action_type(p) = "registry" -> "_handle_registry_request"
           [] action_type(p) = "access_control" ->
                  "_handle_access_control_request"
           [] action_type(p) = "blockchain" -> "_handle_blockchain_request"
           [] OTHER -> None

\* The calls of ChroniclerService.log_action: the ids passed in and what
\* each step does when it is reached: check_action_allowed allows, denies
\* or raises; create_data_hash and AuditService.log_action return or raise.
ActionIds == {"act1", "act2", "act3"}

LogActionCalls ==
    [action_id : ActionIds, agent_id : AgentIds,
     tool_id : {"agent_execution", "tool1"},
     check : {"allowed", "denied", "raises"},
     hash : {"ok", "raises"},
     log : {"ok", "raises"}]

\* AuditResult(action_id=..., status=..., tx_hash=..., error_message=...),
\* returned after the steps in calls.
AuditResult(id, st, tx, msg, calls) ==
    [kind |-> "value", action_id |-> id, status |-> st, tx_hash |-> tx,
     error_message |-> msg, calls |-> calls]

\* A log_action that records the action whatever the access check said.
LogActionIgnoresDenial(c) ==
    IF c.check = "raises"
    THEN AuditResult(c.action_id, "FAILED", None, "check_action_allowed",
                     <<"check_action_allowed">>)
    ELSE IF c.hash = "raises"
    THEN AuditResult(c.action_id, "FAILED", None, "create_data_hash",
                     <<"check_action_allowed", "create_data_hash">>)
    ELSE IF c.log = "raises"
    THEN AuditResult(c.action_id, "FAILED", None, "log_action",
                     <<"check_action_allowed", "create_data_hash",
                       "log_action">>)
    ELSE AuditResult(c.action_id, "SUCCESS", "tx_hash", None,
                     <<"check_action_allowed", "create_data_hash",
                       "log_action">>)

\* ChroniclerService.log_action, step by step: the access check; when it
\* denies, a FAILED result at once; else the data hash and the audit log and
\* a SUCCESS result; the except clause turns the exception of any step into
\* a FAILED result carrying its message.
ChroniclerServiceLogAction(c) ==
    IF c.check = "raises"
    THEN AuditResult(c.action_id, "FAILED", None, "check_action_allowed",
                     <<"check_action_allowed">>)
    ELSE IF c.check = "denied"
    THEN AuditResult(c.action_id, "FAILED", None, "Access denied",
                     <<"check_action_allowed">>)
    ELSE IF c.hash = "raises"
    THEN AuditResult(c.action_id, "FAILED", None, "create_data_hash",
                     <<"check_action_allowed", "create_data_hash">>)
    ELSE IF c.log = "raises"
    THEN AuditResult(c.action_id, "FAILED", None, "log_action",
                     <<"check_action_allowed", "create_data_hash",
                       "log_action">>)
    ELSE AuditResult(c.action_id, "SUCCESS", "tx_hash", None,
                     <<"check_action_allowed", "create_data_hash",
                       "log_action">>)

\* log_action is called: ret.arg are its inputs.
InitLogAction ==
    /\ Constructed
    /\ \E c \in LogActionCalls :
          ret = [op |-> "log_action", arg |-> c, kind |-> "called",
                 val |-> None, log |-> None]

\* The call returns its AuditResult.
LogAction ==
    /\ ret.op = "log_action"
    /\ ret.kind = "called"
    /\ ret' = [ret EXCEPT !.kind = ChroniclerServiceLogAction(ret.arg).kind,
                          !.val = ChroniclerServiceLogAction(ret.arg)]
    /\ UNCHANGED <<managerVars, agentVars, historyVars, tasks,
                   next_request_id, supervisorVars>>

NextLogAction == LogAction

SpecLogAction == InitLogAction /\ [][NextLogAction]_vars

\* ChroniclerService.log_action: the policy check, the data hash (json.dumps
\* of input and output) and the audit log, all inside one try whose except
\* clause returns an AuditResult of status FAILED.
log_action(fails, serializable) ==
    ChroniclerServiceLogAction(
        [action_id |-> "act1", agent_id |-> "a1",
         tool_id |-> "agent_execution",
         check |-> IF "access_control_service" \in fails
                   THEN "raises" ELSE "allowed",
         hash |-> IF "audit_service" \in fails \/ ~serializable
                  THEN "raises" ELSE "ok",
         log |-> IF "audit_service" \in fails
                 THEN "raises" ELSE "ok"]).status

\* BaseAgent._audit_action: None when auditing is off; None and an error
\* log when chronicler_service.log_action raises; else what it returns.
\* The output is passed on only under log_output.
audit_action(p, serializable) ==
    IF ~p.audit_enabled
    THEN [audit_result |-> None, logged |-> FALSE]
    ELSE IF "chronicler_service" \in p.fails
         THEN [audit_result |-> None, logged |-> TRUE]
         ELSE [audit_result |->
                   log_action(p.fails, p.log_output => serializable),
               logged |-> FALSE]

\* The handler chosen by process_request raises: the collaborator it is
\* built on fails (each handler re-raises as Exception), the operation or
\* the action is not one it accepts, or the action_type is unknown.  The
\* audit handler reads its data with defaults; the blockchain handler calls
\* no collaborator.
HandlerRaises(p) ==
    CASE Handler(p) = "mcp" -> "mcp_client" \in p.fails
      [] Handler(p) = "_handle_audit_request" -> "audit_service" \in p.fails
      [] Handler(p) = "_handle_registry_request" ->
             ~p.well_formed \/ "registry_service" \in p.fails
      [] Handler(p) = "_handle_access_control_request" ->
             ~p.well_formed \/ "access_control_service" \in p.fails
      [] Handler(p) = "_handle_blockchain_request" -> ~p.well_formed
      [] OTHER -> TRUE

\* A handler that audits its action before the step that can fail.
HandlerAuditsFirst(p) ==
    IF Handler(p) = None THEN 0 ELSE 1

\* The _audit_action calls a handler makes: one, as its last step before
\* it builds the Response; none when it raised before that.
HandlerAudits(p) ==
    IF HandlerRaises(p) THEN 0 ELSE 1

\* json.dumps accepts the output handed to _audit_action: the output of the
\* blockchain handler holds BlockchainResult.model_dump(), whose timestamp
\* is a datetime; the other outputs are plain.
OutputSerializable(p) ==
    \/ HandlerRaises(p)
    \/ Handler(p) # "_handle_blockchain_request"

\* process_request: the handler, then _audit_action and the Response; the
\* except clause audits the error and builds the error Response.
process_request(p) ==
    [agent_id |-> agent_id(p.obj),
     status |-> IF HandlerRaises(p) THEN "error" ELSE "success",
     metadata |-> IF HandlerRaises(p)
                  THEN [error_type |-> IF Handler(p) = None
                                       THEN "ValueError" ELSE "Exception"]
                  ELSE IF Handler(p) = "mcp" THEN [model |-> "model"]
                  ELSE [action_type |-> action_type(p)],
     audit_calls |-> HandlerAudits(p) + (IF HandlerRaises(p) THEN 1 ELSE 0),
     audit_result |-> audit_action(p, OutputSerializable(p)).audit_result,
     logged |-> HandlerRaises(p) \/ audit_action(p, OutputSerializable(p)).logged]

\* process_request is called: ret.arg are its inputs.
InitProcessing ==
    /\ Constructed
    /\ \E p \in Processings :
          ret = [op |-> "process_request", arg |-> p, kind |-> "called",
                 val |-> None, log |-> None]

\* The call returns its Response.
ProcessRequest ==
    /\ ret.op = "process_request"
    /\ ret.kind = "called"
    /\ ret' = [ret EXCEPT !.kind = "value", !.val = process_request(ret.arg)]
    /\ UNCHANGED <<managerVars, agentVars, historyVars, tasks,
                   next_request_id, supervisorVars>>

NextProcessing == ProcessRequest

SpecProcessing == InitProcessing /\ [][NextProcessing]_vars

\* ================================================================ claims

\* C1: in every reachable state the key sets of agents, agent_types and
\* agent_capabilities are the same set of ids, so no operation resumed at a
\* suspension point sees an id in one map and not in another.
C1_IndexesConsistent ==
    /\ Keys(agents) = Keys(agent_types)
    /\ Keys(agents) = Keys(agent_capabilities)

\* An unregister_agent has succeeded while another agent stays registered
\* and an execution is in flight.
C1_Witness ==
    /\ ret.op = "unregister_agent"
    /\ ret.val = TRUE
    /\ Len(agents) = 1
    /\ \E t \in Tasks : tasks[t].pc = "processing"

\* C2: register_agent with an id that is already registered returns False
\* and changes neither the collection nor the indexes nor any agent.
C2_DuplicateRegisterRejected ==
    [][\A o \in Objs :
         (agent_id(o) \in Keys(agents) /\ RegisterAgent(o)) =>
            /\ ret'.op = "register_agent"
            /\ ret'.kind = "value"
            /\ ret'.val = FALSE
            /\ UNCHANGED <<managerVars, agentVars>>]_vars

\* register_agent has just refused an object whose id is held by another
\* object, and that other object is still the one stored.
C2_Witness ==
    /\ ret.op = "register_agent"
    /\ ret.val = FALSE
    /\ agent_id(ret.arg) \in Keys(agents)
    /\ Lookup(agents, agent_id(ret.arg)) # ret.arg
    /\ Lookup(agent_types, agent_id(ret.arg)) # agent_type(ret.arg)

\* C3: whatever find_agent_by_capability or find_agent_by_type returns is
\* None or a registered id whose agent is not in ERROR.
C3_FindSkipsErrorAgents ==
    /\ \A c \in AgentCapabilities :
         LET r == find_agent_by_capability(c) IN
         r # None => r \in Keys(agents) /\ status[Lookup(agents, r)] # ERROR
    /\ \A ty \in AgentTypes :
         LET r == find_agent_by_type(ty) IN
         r # None => r \in Keys(agents) /\ status[Lookup(agents, r)] # ERROR

\* The first registered holder of a capability and of a type is in ERROR and
\* both lookups return the second one.
C3_Witness ==
    /\ Len(agents) = 2
    /\ agents[1].value = "o2"
    /\ status["o2"] = ERROR
    /\ find_agent_by_capability("text_generation") = "a2"
    /\ find_agent_by_type("general") = "a2"

\* The registered ids that hold a capability (are of a type) and are not
\* in ERROR.
EligibleByCapability(c) ==
    {id \in Keys(agents) : /\ c \in capabilities(Lookup(agents, id))
                           /\ status[Lookup(agents, id)] # ERROR}

EligibleByType(ty) ==
    {id \in Keys(agents) : /\ agent_type(Lookup(agents, id)) = ty
                           /\ status[Lookup(agents, id)] # ERROR}

\* The id of S whose latest successful registration is the earliest.
EarliestRegistered(S) ==
    IF S = {} THEN None
    ELSE registration_order[
             Min({i \in 1..Len(registration_order) :
                    registration_order[i] \in S})]

\* C4: find_agent_by_capability and find_agent_by_type return the eligible
\* id registered earliest (counting each id from its latest registration),
\* and None when no id is eligible.
C4_FindReturnsEarliestRegistered ==
    /\ \A c \in AgentCapabilities :
         find_agent_by_capability(c) = EarliestRegistered(EligibleByCapability(c))
    /\ \A ty \in AgentTypes :
         find_agent_by_type(ty) = EarliestRegistered(EligibleByType(ty))

\* a1 was registered first, unregistered and registered again after a2:
\* the lookups now return a2.
C4_Witness ==
    /\ Len(agents) = 2
    /\ registration_order = <<"a2", "a1">>
    /\ status["o1"] = DISABLED
    /\ Lookup(agents, "a1") = "o2"
    /\ status["o2"] = IDLE
    /\ find_agent_by_capability("text_generation") = "a2"
    /\ find_agent_by_capability("web_search") = None

\* C5: execute_request on an id that is not registered, or on a registered
\* agent in ERROR, returns None, starts no execution on any agent and leaves
\* request_history, response_times, request_stats and error_stats as they
\* were, so get_manager_stats reports the same totals before and after.
C5_RejectedRequestChangesNothing ==
    [][\A t \in Tasks, id \in AgentIds, inp \in Inputs :
         ( /\ \/ id \notin Keys(agents)
              \/ status[Lookup(agents, id)] = ERROR
           /\ ExecuteRequest(t, id, inp) ) =>
            /\ ret'.op = "execute_request"
            /\ ret'.kind = "none"
            /\ ret'.log \in {"not found", "error state"}
            /\ UNCHANGED <<request_history, response_times, request_stats,
                           error_stats>>
            /\ UNCHANGED <<tasks, next_request_id, agentVars>>
            /\ get_manager_stats'.total_requests =
                   get_manager_stats.total_requests
            /\ get_manager_stats'.total_errors =
                   get_manager_stats.total_errors]_vars

\* A request to a registered agent in ERROR has just been rejected by a
\* manager that already tracked a Response.
C5_Witness ==
    /\ ret.op = "execute_request"
    /\ ret.log = "error state"
    /\ \E id \in Keys(agents) : status[Lookup(agents, id)] = ERROR
    /\ Len(request_history) = 1
    /\ get_manager_stats.total_requests = 1

\* C6: when an execute_request gets a Response from the agent it appends
\* that Response to request_history and one duration to response_times,
\* adds 1 to request_stats[agent_id], and adds 1 to error_stats[agent_id]
\* exactly when the Response status is "error"; so total_requests is the
\* number of Responses returned so far.
C6_ResponseTrackedOnce ==
    /\ [](get_manager_stats.total_requests = SumOver(completed, Objs))
    /\ [][\A t \in Tasks :
            (ProcessRequestReturn(t) /\ Len(request_history) < HistoryCap) =>
               LET id == tasks[t].agent_id IN
               /\ ret'.kind = "value"
               /\ request_history' = Append(request_history, ret'.val)
               /\ Len(response_times') = Len(response_times) + 1
               /\ request_stats' = [request_stats EXCEPT ![id] = @ + 1]
               /\ error_stats' =
                    [error_stats EXCEPT
                       ![id] = IF ret'.val.status = "error" THEN @ + 1
                               ELSE @]]_vars

\* Two Responses were tracked, the first a success and the second an error.
C6_Witness ==
    /\ ret.op = "execute_request"
    /\ ret.kind = "value"
    /\ ret.val.status = "error"
    /\ Len(request_history) = 2
    /\ request_history[1].status = "success"
    /\ Len(response_times) = 2
    /\ get_manager_stats.total_requests = 2
    /\ get_manager_stats.total_errors = 1

\* C7: an execution with no overlapping execution or shutdown on its agent
\* sees the status RUNNING all the time the processing step runs, and IDLE
\* once execute has returned.
C7_RunningWhileProcessing ==
    /\ [](\A t \in Tasks :
            (tasks[t].pc = "processing" /\ ~tasks[t].overlapped) =>
               status[tasks[t].obj] = RUNNING)
    /\ [][\A t \in Tasks :
            (ProcessRequestReturn(t) /\ ~tasks[t].overlapped) =>
               status'[tasks[t].obj] = IDLE]_vars

\* C8: execute never raises to the manager: no execute_request ends in the
\* handler that logs "error executing request" and returns None.
C8_ExecuteNeverRaises ==
    ret.op = "execute_request" => ret.log # "error executing request"

\* C9: the error_count of every agent is the number of its executions that
\* ended with an error Response.
C9_ErrorCountCountsFaults ==
    \A o \in Objs : error_count[o] = faulted[o]

\* C10: request_count is the number of executions that entered RUNNING, so
\* with none in flight it is the number N of completed executions, and the
\* error_rate of get_health_status is error_count over N, or over 1 with a
\* zero numerator when there was no execution.
C10_RequestCountAndErrorRate ==
    \A o \in Objs :
       /\ request_count[o] = completed[o] + Cardinality(InFlight(o))
       /\ InFlight(o) = {} =>
            /\ completed[o] >= 1 =>
                 get_health_status(o).error_rate =
                     [num |-> error_count[o], den |-> completed[o]]
            /\ completed[o] = 0 =>
                 get_health_status(o).error_rate = [num |-> 0, den |-> 1]

\* One agent has completed two executions and none is in flight.
C10_Witness ==
    \E o \in Objs :
       /\ completed[o] = 2
       /\ InFlight(o) = {}
       /\ request_count[o] = 2
       /\ get_health_status(o).error_rate.den = 2

\* C11: DISABLED is terminal and reached only through shutdown: a step
\* never takes the status of an agent from DISABLED to another status, and
\* a step that makes it DISABLED is a step of AgentManager.shutdown or of
\* the agent.shutdown() that unregister_agent awaits.
C11_DisabledIsTerminal ==
    [][\A o \in Objs :
         /\ status[o] = DISABLED => status'[o] = DISABLED
         /\ (status[o] # DISABLED /\ status'[o] = DISABLED) =>
               \/ Shutdown
               \/ \E t \in Tasks, id \in AgentIds : UnregisterAgent(t, id)
               \/ \E t \in Tasks : UnregisterAgentResume(t)]_vars

\* C12: an agent whose initialization fails moves to ERROR, and an agent
\* whose execution ends in a fault that nothing caught (execute raised to
\* the manager) is in ERROR after that execution, not IDLE.
C12_FaultMovesToError ==
    [][/\ \A o \in Objs : InitializeFailed(o) => status'[o] = ERROR
       /\ \A t \in Tasks, id \in AgentIds, inp \in Inputs :
            ( /\ ExecuteRequest(t, id, inp)
              /\ ret'.log = "error executing request" ) =>
               status'[Lookup(agents, id)] = ERROR]_vars

\* ------------------------------------------- a manager with a long history
\* The state of a manager that registered o1 as a1 and o3 as a2 and has
\* tracked n Responses since, with no call in progress.  The i-th Response
\* came from PastAgent(i) with status PastStatus(i), and both the agent and
\* the manager measured PastDuration(i) for it.
PastAgent(i) == IF i % 4 \in {1, 2} THEN "a1" ELSE "a2"

PastStatus(i) == IF i % 3 = 0 THEN "error" ELSE "success"

PastDuration(i) == 1 + (i % 2)

PastResponse(i) ==
    [agent_id |-> PastAgent(i), status |-> PastStatus(i),
     execution_time |-> PastDuration(i)]

\* The executions among the first n that ran on agent id, oldest first.
PastOf(id, n) == SelectSeq([i \in 1..n |-> i], LAMBDA i : PastAgent(i) = id)

\* The numbers of tracked Responses the long histories start from: one that
\* leaves an agent's window one short of its cap, one that leaves the
\* manager's windows one short of theirs, and one that fills them.
PastLengths == {2 * ExecutionTimesCap - 2, HistoryCap - 1, HistoryCap}

InitWindows ==
    \E n \in PastLengths :
      LET past(o) == IF o = "o2" THEN <<>> ELSE PastOf(agent_id(o), n)
          window(o) ==
              LET k == Len(past(o)) IN
              [j \in 1..(IF k > ExecutionTimesCap THEN ExecutionTimesCap ELSE k)
                 |-> PastDuration(
                        past(o)[j + (IF k > ExecutionTimesCap
                                     THEN k - ExecutionTimesCap ELSE 0)])]
      IN
      /\ agents = <<[key |-> "a1", value |-> "o1"],
                    [key |-> "a2", value |-> "o3"]>>
      /\ agent_types = <<[key |-> "a1", value |-> agent_type("o1")],
                         [key |-> "a2", value |-> agent_type("o3")]>>
      /\ agent_capabilities =
             <<[key |-> "a1", value |-> capabilities("o1")],
               [key |-> "a2", value |-> capabilities("o3")]>>
      /\ request_history = [i \in 1..n |-> PastResponse(i)]
      /\ response_times = [i \in 1..n |-> PastDuration(i)]
      /\ request_stats = [a \in AgentIds |-> Len(PastOf(a, n))]
      /\ error_stats =
             [a \in AgentIds |->
                Cardinality({i \in 1..n : /\ PastAgent(i) = a
                                          /\ PastStatus(i) = "error"})]
      /\ status = [o \in Objs |-> IDLE]
      /\ request_count = [o \in Objs |-> Len(past(o))]
      /\ error_count = [o \in Objs |-> 0]
      /\ execution_times = [o \in Objs |-> window(o)]
      /\ init_task = [o \in Objs |-> "done"]
      /\ tasks = [t \in Tasks |-> IdleTask]
      /\ next_request_id = 0
      /\ ret = Returned("execute_request", "value", PastResponse(n), None)
      /\ registration_order = <<"a1", "a2">>
      /\ completed = [o \in Objs |-> Len(past(o))]
      /\ faulted =
             [o \in Objs |->
                Cardinality({i \in 1..n : /\ o # "o2"
                                          /\ PastAgent(i) = agent_id(o)
                                          /\ PastStatus(i) = "error"})]
      /\ health_check_task = None
      /\ health_log = <<>>

NextWindows ==
    \/ \E t \in Tasks, id \in AgentIds, inp \in Inputs : ExecuteRequest(t, id, inp)
    \/ \E t \in Tasks : ProcessRequestReturn(t)

SpecWindows == InitWindows /\ [][NextWindows]_vars

\* C13: in every state another operation can observe, the execution_times
\* of each agent has at most 100 entries and request_history and
\* response_times have at most 1000 entries each.
C13_WindowsBounded ==
    /\ \A o \in Objs : Len(execution_times[o]) <= ExecutionTimesCap
    /\ Len(request_history) <= HistoryCap
    /\ Len(response_times) <= HistoryCap

\* Two more Responses were tracked on top of full windows: the manager has
\* counted more requests than its history holds, and so has agent o1.
C13_Witness ==
    /\ Len(request_history) = HistoryCap
    /\ Len(response_times) = HistoryCap
    /\ get_manager_stats.total_requests = HistoryCap + 2
    /\ Len(execution_times["o1"]) = ExecutionTimesCap
    /\ request_count["o1"] > completed["o3"]
    /\ completed["o1"] + completed["o3"] = HistoryCap + 2

\* C14: an append to a full window drops the single oldest entry and keeps
\* every other entry in its place in the order, with the new entry last:
\* for execution_times at 100 entries, for request_history and
\* response_times at 1000.
C14_EvictionIsFifo ==
    [][\A t \in Tasks :
         ProcessRequestReturn(t) =>
            LET o == tasks[t].obj IN
            /\ Len(request_history) = HistoryCap =>
                 request_history' = Tail(request_history) \o <<ret'.val>>
            /\ Len(response_times) = HistoryCap =>
                 response_times' =
                     Tail(response_times) \o <<ret'.val.execution_time>>
            /\ Len(execution_times[o]) = ExecutionTimesCap =>
                 \E d \in Durations :
                    execution_times'[o] =
                        Tail(execution_times[o]) \o <<d>>]_vars

\* Two Responses were appended to full windows: the history now starts at
\* the third past Response and ends with the two new ones.
C14_Witness ==
    /\ Len(request_history) = HistoryCap
    /\ request_history[1] = PastResponse(3)
    /\ request_history[HistoryCap - 2] = PastResponse(HistoryCap)
    /\ request_history[HistoryCap] = ret.val
    /\ response_times[1] = PastDuration(3)
    /\ response_times[HistoryCap] = ret.val.execution_time
    /\ completed["o1"] + completed["o3"] = HistoryCap + 2

\* ------------------------------------------------------------ more reads
\* get_metadata, with the fields of the agent that change.
get_metadata(o) ==
    [agent_id |-> agent_id(o), agent_type |-> agent_type(o),
     capabilities |-> capabilities(o),
     metadata |-> [request_count |-> request_count[o],
                   error_count |-> error_count[o],
                   status |-> status[o]]]

get_agent_status(id) ==
    IF id \notin Keys(agents) THEN None
    ELSE get_health_status(Lookup(agents, id))

get_agent_metadata(id) ==
    IF id \notin Keys(agents) THEN None
    ELSE get_metadata(Lookup(agents, id))

\* get_all_agent_statuses: the health snapshot of every registered agent,
\* in the order of the collection.
get_all_agent_statuses ==
    [i \in 1..Len(agents) |->
        [key |-> agents[i].key, value |-> get_health_status(agents[i].value)]]

\* ------------------------------------------------ the reads as operations
\* Each read computes its value and returns it; none has an assignment to
\* an attribute of the manager or of an agent.
GetHealthStatus(o) ==
    /\ ret' = Returned("get_health_status", "value", get_health_status(o), None)
    /\ UNCHANGED <<managerVars, agentVars, historyVars, tasks,
                   next_request_id, supervisorVars>>

GetMetadata(o) ==
    /\ ret' = Returned("get_metadata", "value", get_metadata(o), None)
    /\ UNCHANGED <<managerVars, agentVars, historyVars, tasks,
                   next_request_id, supervisorVars>>

GetAgentStatus(id) ==
    /\ ret' = IF id \in Keys(agents)
              THEN Returned("get_agent_status", "value",
                            get_agent_status(id), None)
              ELSE Returned("get_agent_status", "none", None, None)
    /\ UNCHANGED <<managerVars, agentVars, historyVars, tasks,
                   next_request_id, supervisorVars>>

GetAllAgentStatuses ==
    /\ ret' = Returned("get_all_agent_statuses", "value",
                       get_all_agent_statuses, None)
    /\ UNCHANGED <<managerVars, agentVars, historyVars, tasks,
                   next_request_id, supervisorVars>>

GetManagerStats ==
    /\ ret' = Returned("get_manager_stats", "value", get_manager_stats, None)
    /\ UNCHANGED <<managerVars, agentVars, historyVars, tasks,
                   next_request_id, supervisorVars>>

\* The manager with its supervisor, its requests and its reads.
NextReads ==
    \/ \E o \in Objs : RegisterAgent(o)
    \/ \E t \in Tasks, id \in AgentIds, inp \in Inputs : ExecuteRequest(t, id, inp)
    \/ \E t \in Tasks : ProcessRequestReturn(t)
    \/ HealthCheckCycle
    \/ \E o \in Objs : GetHealthStatus(o)
    \/ \E o \in Objs : GetMetadata(o)
    \/ \E id \in AgentIds : GetAgentStatus(id)
    \/ GetAllAgentStatuses
    \/ GetManagerStats

SpecReads == InitSupervisor /\ [][NextReads]_vars

\* C15: AgentManager.shutdown raises nothing and leaves every registered
\* agent DISABLED, and a second shutdown right after it changes no status.
C15_ShutdownIdempotent ==
    [][Shutdown =>
         LET registered == {Lookup(agents, id) : id \in Keys(agents)} IN
         /\ ret'.op = "shutdown"
         /\ ret'.log = None
         /\ UNCHANGED managerVars
         /\ \A o \in registered : status'[o] = DISABLED
         /\ \A o \in registered, closeOk \in BOOLEAN :
               ShutdownStatus(status', o, closeOk) = status']_vars

\* C16: when the shutdown of an agent with an execution in flight has
\* returned, the agent is DISABLED and no execution is running on it.
C16_ShutdownCancelsExecution ==
    [][\A o \in Objs :
         ( /\ InFlight(o) # {}
           /\ \/ Shutdown /\ o \in {Lookup(agents, id) : id \in Keys(agents)}
              \/ \E t \in Tasks :
                   UnregisterAgentResume(t) /\ tasks[t].obj = o ) =>
            /\ InFlight(o)' = {}
            /\ status'[o] = DISABLED]_vars

\* C17: the object a resumed unregister_agent removes is the object whose
\* shutdown that call awaited.
C17_RemovedAfterOwnShutdown ==
    [][\A t \in Tasks :
         ( /\ UnregisterAgentResume(t)
           /\ ret'.val = TRUE ) =>
            Lookup(agents, tasks[t].agent_id) = tasks[t].obj]_vars

\* The id is unknown to every read and to execute_request.
Unknown(id) ==
    /\ id \notin Keys(agents)
    /\ id \notin Keys(agent_types)
    /\ id \notin Keys(agent_capabilities)
    /\ \A c \in AgentCapabilities : find_agent_by_capability(c) # id
    /\ \A ty \in AgentTypes : find_agent_by_type(ty) # id
    /\ Rejection(id) = "not found"
    /\ get_agent_status(id) = None
    /\ get_agent_metadata(id) = None

\* C18: unregister_agent on an unregistered id returns False and changes
\* nothing; an unregister_agent that returns True has removed its id from
\* the three maps, every read and execute_request then treat the id as
\* unknown, and a register_agent of an unknown id succeeds.
C18_UnregisterResult ==
    [][/\ \A t \in Tasks, id \in AgentIds :
            (tasks[t].pc = "idle" /\ UnregisterAgent(t, id)) =>
               /\ id \notin Keys(agents) =>
                    /\ ret'.op = "unregister_agent"
                    /\ ret'.kind = "value"
                    /\ ret'.val = FALSE
                    /\ UNCHANGED <<managerVars, agentVars, historyVars,
                                   tasks, next_request_id>>
               /\ (id \in Keys(agents) /\ tasks'[t].pc = "idle") =>
                    /\ ret'.op = "unregister_agent"
                    /\ ret'.val = TRUE
                    /\ Unknown(id)'
       /\ \A t \in Tasks, id \in AgentIds :
            ( /\ tasks[t].agent_id = id
              /\ UnregisterAgentResume(t)
              /\ ret'.val = TRUE ) =>
               Unknown(id)'
       /\ \A o \in Objs :
            (agent_id(o) \notin Keys(agents) /\ RegisterAgent(o)) =>
               /\ ret'.val = TRUE
               /\ Lookup(agents', agent_id(o)) = o]_vars

\* An id was unregistered, which disabled its object, and has been
\* registered again with another object.
C18_Witness ==
    /\ ret.op = "register_agent"
    /\ ret.val = TRUE
    /\ Lookup(agents, agent_id(ret.arg)) = ret.arg
    /\ \E o \in Objs : /\ o # ret.arg
                       /\ agent_id(o) = agent_id(ret.arg)
                       /\ status[o] = DISABLED

\* C19: an id never has two entries; register_agent returns True exactly
\* when the id has no entry and leaves exactly one; an unregister_agent
\* that returns True has removed an entry that was there, one that returns
\* False has removed nothing; so of two concurrent unregister_agent calls
\* on one entry the first to finish returns True and the other False.
C19_OneWinner ==
    /\ [](\A i, j \in 1..Len(agents) :
             agents[i].key = agents[j].key => i = j)
    /\ [][/\ \A o \in Objs :
               RegisterAgent(o) =>
                  /\ ret'.val = (agent_id(o) \notin Keys(agents))
                  /\ Cardinality({i \in 1..Len(agents') :
                                    agents'[i].key = agent_id(o)}) = 1
          /\ \A t \in Tasks :
               UnregisterAgentResume(t) =>
                  LET id == tasks[t].agent_id IN
                  /\ ret'.kind = "value"
                  /\ ret'.val = (id \in Keys(agents))
                  /\ id \notin Keys(agents')
                  /\ ret'.val = FALSE => UNCHANGED managerVars
                  /\ \A u \in Tasks \ {t} :
                       ( /\ tasks[u].pc = "closing"
                         /\ tasks[u].agent_id = id
                         /\ ret'.val = TRUE ) =>
                          /\ tasks'[u].pc = "closing"
                          /\ tasks'[u].agent_id \notin Keys(agents')]_vars

\* Of two unregister_agent calls suspended on the same entry one returned
\* True and the other has now returned False.
C19_Witness ==
    /\ ret.op = "unregister_agent"
    /\ ret.val = FALSE
    /\ ret.log = "failed to unregister"
    /\ agents = <<>>
    /\ \A t \in Tasks : tasks[t].pc = "idle"
    /\ status["o2"] = DISABLED

\* C20: when AgentManager.shutdown has returned, no registered agent has
\* an execution in flight and no initialization task of a registered agent
\* can still run.
C20_NothingRunsAfterShutdown ==
    [][Shutdown =>
         \A o \in {Lookup(agents, id) : id \in Keys(agents)} :
            /\ InFlight(o)' = {}
            /\ init_task'[o] # "pending"]_vars

C28_ManagerStats ==
    /\ [](LET registered == {o \in Objs :
                               \E i \in 1..Len(agents) : agents[i].value = o}
              with(st) == Cardinality({o \in registered : status[o] = st})
          IN
          /\ get_manager_stats.total_agents = Cardinality(registered)
          /\ get_manager_stats.active_agents = with(RUNNING)
          /\ get_manager_stats.idle_agents = with(IDLE)
          /\ get_manager_stats.error_agents = with(ERROR)
          /\ get_manager_stats.total_requests =
                 request_stats["a1"] + request_stats["a2"]
          /\ get_manager_stats.total_errors =
                 error_stats["a1"] + error_stats["a2"])
    /\ [][\A o \in Objs :
            ( /\ agents = <<>>
              /\ \A a \in AgentIds : request_stats[a] = 0
              /\ status[o] = IDLE
              /\ RegisterAgent(o) ) =>
               /\ get_manager_stats'.total_agents = 1
               /\ get_manager_stats'.idle_agents = 1
               /\ get_manager_stats'.total_requests = 0]_vars

\* A second agent has just been registered while the first, which has
\* completed one request, is processing another: two agents, one active,
\* one idle, one request counted; a third object, unregistered, is idle too.
C28_Witness ==
    /\ ret.op = "register_agent"
    /\ ret.val = TRUE
    /\ get_manager_stats.total_agents = 2
    /\ get_manager_stats.active_agents = 1
    /\ get_manager_stats.idle_agents = 1
    /\ get_manager_stats.total_requests = 1
    /\ \E o \in Objs : o \notin {agents[1].value, agents[2].value}
                       /\ status[o] = IDLE

\* C27: while an execute_request on agent A is suspended in its processing
\* step, an execute_request on any other registered agent B that passes the
\* availability checks can start at once (it reaches its own processing step
\* and leaves A's call where it is), and every call suspended in its
\* processing step can return whatever the other calls are doing: nothing
\* is held across an agent's execution.
C27_DifferentAgentsDoNotBlock ==
    \A t \in Tasks :
       tasks[t].pc = "processing" =>
          /\ \A u \in Tasks :
                tasks[u].pc = "processing" => ENABLED ProcessRequestReturn(u)
          /\ \A u \in Tasks, B \in Keys(agents) \ {tasks[t].agent_id} :
                ( /\ Free(tasks, u)
                  /\ Rejection(B) = None
                  /\ next_request_id < MaxExecutions ) =>
                   ENABLED ( /\ ExecuteRequest(u, B, "mapping")
                             /\ tasks'[u].pc = "processing"
                             /\ tasks'[u].agent_id = B
                             /\ tasks'[t] = tasks[t] )

\* Two executions are suspended in their processing steps at the same time,
\* one on each of two registered agents.
C27_Witness ==
    /\ tasks[1].pc = "processing"
    /\ tasks[2].pc = "processing"
    /\ tasks[1].agent_id = "a1"
    /\ tasks[2].agent_id = "a2"
    /\ status[tasks[1].obj] = RUNNING
    /\ status[tasks[2].obj] = RUNNING

C21_HealthTaskStoppedFirst ==
    [][/\ \A t \in Tasks :
            /\ ( /\ Free(tasks, t)
                 /\ health_check_task \notin {None, "done"}
                 /\ ShutdownBegin(t) ) =>
                  /\ health_check_task' = "cancelling"
                  /\ tasks'[t].pc = "awaiting_health"
                  /\ UNCHANGED <<managerVars, agentVars, ret>>
            /\ ( /\ Free(tasks, t)
                 /\ health_check_task \in {None, "done"}
                 /\ ShutdownBegin(t) ) =>
                  /\ tasks'[t].pc = "idle"
                  /\ ret'.op = "shutdown"
                  /\ \A id \in Keys(agents) :
                        AgentClass(Lookup(agents, id)) # "MCPAgent" =>
                           status'[Lookup(agents, id)] = DISABLED
       /\ \A o \in Objs :
            (status'[o] = DISABLED /\ status[o] # DISABLED) =>
               health_check_task \in {None, "done"}]_vars

\* A shutdown that had to wait for the health-check task has returned: the
\* task had run a cycle, is done, and the registered agent is DISABLED.
C21_Witness ==
    /\ ret.op = "shutdown"
    /\ health_check_task = "done"
    /\ Len(health_log) = 1
    /\ Len(agents) = 1
    /\ status[agents[1].value] = DISABLED
    /\ \A t \in Tasks : tasks[t].pc = "idle"

\* C23: a get_health_status that raises for one agent does not end the
\* cycle: one cycle inspects every registered agent, in the order of the
\* collection, whichever of them fail, and leaves the task sleeping towards
\* its next cycle.
C23_CycleInspectsEveryAgent ==
    [][(health_check_task = "sleeping" /\ HealthCheckCycle) =>
          /\ Len(health_log') = Len(agents)
          /\ \A i \in 1..Len(agents) : health_log'[i].agent_id = agents[i].key
          /\ health_check_task' = "sleeping"
          /\ ENABLED HealthCheckCycle]_vars

\* The last cycle failed on the agent registered first and still inspected
\* the agent registered after it.
C23_Witness ==
    /\ Len(agents) = 2
    /\ Len(health_log) = 2
    /\ health_log[1].agent_id = agents[1].key
    /\ health_log[1].outcome = "failed"
    /\ health_log[2].agent_id = agents[2].key
    /\ health_log[2].outcome = "ok"
    /\ health_check_task = "sleeping"

\* C24: once shutdown has cancelled the health-check task the loop runs no
\* further inspection cycle and never sleeps again; the task eventually is
\* done, and every shutdown call waiting for it eventually goes on.
C24_LoopEndsOnCancel ==
    /\ [][(health_check_task \in {"cancelling", "done"}) =>
             ( /\ health_log' = health_log
               /\ health_check_task' \in {"cancelling", "done"} )]_vars
    /\ (health_check_task = "cancelling") ~> (health_check_task = "done")
    /\ \A t \in Tasks :
          (tasks[t].pc = "awaiting_health") ~> (tasks[t].pc # "awaiting_health")

\* The task was cancelled before it had run a cycle; it is done and no
\* shutdown call is waiting for it any more.
C24_Witness ==
    /\ health_check_task = "done"
    /\ ret.op = "shutdown"
    /\ \A t \in Tasks : tasks[t].pc = "idle"
    /\ agents = <<>>
    /\ health_log = <<>>

\* C25: the reads change nothing: a health-check cycle, get_health_status,
\* get_metadata, get_agent_status, get_all_agent_statuses and
\* get_manager_stats leave every agent's status, counters, execution window
\* and initialization, the manager's collection, indexes, history and
\* statistics, and every call in flight as they were; a cycle marks for the
\* log an agent it could inspect exactly when its error rate is above 0.5,
\* and the collection after the cycle is the collection before it.
C25_ReadsChangeNothing ==
    [][( \/ HealthCheckCycle
         \/ \E o \in Objs : GetHealthStatus(o) \/ GetMetadata(o)
         \/ \E id \in AgentIds : GetAgentStatus(id)
         \/ GetAllAgentStatuses
         \/ GetManagerStats ) =>
          /\ UNCHANGED <<managerVars, agentVars, tasks, next_request_id>>
          /\ health_check_task' = health_check_task
          /\ HealthCheckCycle =>
               \A i \in 1..Len(health_log') :
                  LET o == agents[i].value IN
                  /\ health_log'[i].outcome = "warning" =>
                        2 * error_count[o] > Max(request_count[o], 1)
                  /\ health_log'[i].outcome = "ok" =>
                        2 * error_count[o] <= Max(request_count[o], 1)]_vars

\* After a cycle that inspected two agents, one of them running its second
\* request, get_all_agent_statuses has returned their snapshots.
C25_Witness ==
    /\ ret.op = "get_all_agent_statuses"
    /\ Len(ret.val) = 2
    /\ Len(health_log) = 2
    /\ \E i \in 1..2 : /\ ret.val[i].value.status = RUNNING
                       /\ ret.val[i].value.request_count = 2
    /\ request_history # <<>>

\* C29: for every batch of tool calls, _execute_tool_calls raises nothing
\* and returns one result per call, in the order of the calls, whose
\* is_error is true exactly for the calls that failed (malformed, lacking
\* an id or failing in the tool).
C29_ToolCallsNeverAbort ==
    (ret.op = "_execute_tool_calls" /\ ret.kind # "called") =>
       /\ ret.kind = "value"
       /\ Len(ret.val) = Len(ret.arg)
       /\ \A i \in 1..Len(ret.arg) :
             /\ ret.val[i].call = i
             /\ ret.val[i].is_error =
                   ( \/ ret.arg[i].shape # "wellformed"
                     \/ ret.arg[i].tool = "raises"
                     \/ ~ret.arg[i].has_id )

\* The audit-recording or the policy collaborator failed in the course of
\* this execution: the recording service, the policy service or the audit
\* log raised, or the audit log could not hash the output it was given.
CollaboratorFault(p) ==
    \/ p.fails \cap {"chronicler_service", "access_control_service",
                     "audit_service"} # {}
    \/ p.audit_enabled /\ p.log_output /\ ~OutputSerializable(p)

\* C30: when the audit-recording or the policy collaborator fails during an
\* execution whose action type is known and whose other collaborators work,
\* the failure is logged and the Response has the status "success" and no
\* audit result (None), for every action type of a ChroniclerAgent and for
\* an MCPAgent.
C30_CollaboratorFaultIsSoft ==
    ( /\ ret.op = "process_request"
      /\ ret.kind = "value"
      /\ ret.arg.action_type # "unknown"
      /\ ret.arg.fails \cap {"registry_service", "mcp_client"} = {}
      /\ CollaboratorFault(ret.arg) ) =>
       /\ ret.val.status = "success"
       /\ ret.val.audit_result = None
       /\ ret.arg.audit_enabled => ret.val.logged

\* C34: request_history and response_times always have the same length and
\* the Response at each index carries as execution_time the duration at the
\* same index of response_times, which is the manager's measurement and not
\* the 0.0 the agent reported; the Response of a call that completes goes
\* last in both, after the entries of the calls that completed before it,
\* of which only the oldest is dropped, and only from full lists.
C34_HistoryAlignedWithTimes ==
    /\ [](/\ Len(request_history) = Len(response_times)
          /\ \A i \in 1..Len(request_history) :
                /\ request_history[i].execution_time = response_times[i]
                /\ request_history[i].execution_time # 0)
    /\ [][\A t \in Tasks :
            (tasks[t].pc = "processing" /\ ProcessRequestReturn(t)) =>
               LET n == Len(request_history)
                   k == IF n < HistoryCap THEN 0 ELSE 1
               IN /\ Len(request_history') = n + 1 - k
                  /\ request_history'[n + 1 - k] = ret'.val
                  /\ response_times'[n + 1 - k] = ret'.val.execution_time
                  /\ \A i \in 1..(n - k) :
                        /\ request_history'[i] = request_history[i + k]
                        /\ response_times'[i] = response_times[i + k]]_vars

\* Two calls that overlapped have completed on top of a full history, the
\* one on a2 first: their Responses are the last two entries, in that order.
C34_Witness ==
    /\ Len(request_history) = HistoryCap
    /\ request_history[HistoryCap - 1].agent_id = "a2"
    /\ request_history[HistoryCap].agent_id = "a1"
    /\ completed["o1"] + completed["o3"] = HistoryCap + 2
    /\ ret.val = request_history[HistoryCap]
    /\ response_times[HistoryCap] = ret.val.execution_time

\* C35: when two executions overlap on one agent and the first of them
\* finishes, the agent's status is still RUNNING, as the other is still in
\* its processing step; if the agent is registered, get_manager_stats
\* counts it as active and not as idle.
C35_RunningWhileAnyInFlight ==
    [][\A t \in Tasks, u \in Tasks :
         ( /\ t # u
           /\ tasks[t].pc = "processing"
           /\ tasks[u].pc = "processing"
           /\ tasks[t].obj = tasks[u].obj
           /\ ProcessRequestReturn(t) ) =>
            /\ status'[tasks[u].obj] = RUNNING
            /\ \A i \in 1..Len(agents) :
                  agents[i].value = tasks[u].obj =>
                     get_manager_stats'.active_agents >= 1]_vars

\* C36: an agent whose status is ERROR keeps it until it is shut down: no
\* step takes the status from ERROR to IDLE or RUNNING, in particular not
\* the completion of a request that was executing when the background
\* initialization failed.
C36_ErrorUntilShutdown ==
    [][\A o \in Objs :
         status[o] = ERROR => status'[o] \in {ERROR, DISABLED}]_vars

\* C37: for every agent id error_stats[id] is at most request_stats[id],
\* and so total_errors is at most total_requests, also after calls in which
\* the agent's execute raised.
C37_ErrorsAtMostRequests ==
    /\ \A id \in AgentIds : error_stats[id] <= request_stats[id]
    /\ get_manager_stats.total_errors <= get_manager_stats.total_requests

\* C38: register_agent and unregister_agent, at their start and when they
\* resume, leave request_history, response_times, request_stats and
\* error_stats as they were; no step at all lowers a counter of an id, so
\* total_requests and total_errors never decrease and go on counting the
\* requests of ids no longer registered, and an agent registered under an
\* id used before is counted from the earlier values.
C38_StatisticsSurviveRegistration ==
    [][/\ ( \/ /\ ret'.op = "register_agent"
               /\ \E o \in Objs : RegisterAgent(o)
            \/ /\ \/ ret'.op = "unregister_agent"
                  \/ \E t \in Tasks : tasks'[t].op = "unregister_agent"
               /\ \E t \in Tasks :
                     \/ UnregisterAgentResume(t)
                     \/ \E id \in AgentIds : UnregisterAgent(t, id) ) =>
             UNCHANGED <<request_history, response_times, request_stats,
                         error_stats>>
       /\ \A id \in AgentIds : /\ request_stats'[id] >= request_stats[id]
                                /\ error_stats'[id] >= error_stats[id]
       /\ (request_stats' # request_stats \/ error_stats' # error_stats) =>
             /\ get_manager_stats'.total_requests
                   >= get_manager_stats.total_requests
             /\ get_manager_stats'.total_errors
                   >= get_manager_stats.total_errors]_vars

\* A new object has just been registered under an id whose earlier agent
\* completed a request and was unregistered: the object has executed
\* nothing and the id already counts one request.
C38_Witness ==
    /\ ret.op = "register_agent"
    /\ ret.val = TRUE
    /\ ret.arg = "o2"
    /\ Keys(agents) = {"a1"}
    /\ request_count["o2"] = 0
    /\ request_count["o1"] = 1
    /\ request_stats["a1"] = 1
    /\ get_manager_stats.total_requests = 1
    /\ Len(request_history) = 1


\* AgentManagerConfig.max_concurrent_agents, here configured as 1 (through
\* MAX_CONCURRENT_AGENTS or the constructor); the default is 10.
max_concurrent_agents == 1

\* C39: the number of registered agents never exceeds max_concurrent_agents,
\* and a register_agent call made when that many agents are registered
\* returns False and stores nothing.
C39_AgentsWithinLimit ==
    /\ Len(agents) <= max_concurrent_agents
    /\ (ret.op = "register_agent" /\ ret.val = TRUE) =>
          Len(agents) <= max_concurrent_agents


\* C31: ChroniclerAgent.process_request dispatches on
\* input_data["action_type"], "audit" when the key is absent: the tags
\* audit, registry, access_control and blockchain each go to a handler of
\* their own; a Response of status success carries the tag as
\* metadata["action_type"]; any other tag gives status error; and on every
\* path _audit_action is called exactly once for the request.
C31_DispatchAndOneAudit ==
    (/\ ret.op = "process_request"
     /\ ret.kind = "value"
     /\ AgentClass(ret.arg.obj) = "ChroniclerAgent") =>
       LET p == ret.arg
           r == ret.val
           known == {"audit", "registry", "access_control", "blockchain"}
       IN /\ p.action_type = "absent" =>
                Handler(p) = "_handle_audit_request"
          /\ p.action_type = "audit" => Handler(p) = "_handle_audit_request"
          /\ p.action_type = "registry" =>
                Handler(p) = "_handle_registry_request"
          /\ p.action_type = "access_control" =>
                Handler(p) = "_handle_access_control_request"
          /\ p.action_type = "blockchain" =>
                Handler(p) = "_handle_blockchain_request"
          /\ r.status = "success" =>
                /\ action_type(p) \in known
                /\ DOMAIN r.metadata = {"action_type"}
                /\ r.metadata.action_type = action_type(p)
          /\ action_type(p) \notin known => r.status = "error"
          /\ r.audit_calls = 1

\* A blockchain request has returned a Response of status success tagged
\* blockchain, with one _audit_action call.
C31_Witness ==
    /\ ret.op = "process_request"
    /\ ret.kind = "value"
    /\ AgentClass(ret.arg.obj) = "ChroniclerAgent"
    /\ ret.arg.action_type = "blockchain"
    /\ ret.val.status = "success"
    /\ ret.val.metadata = [action_type |-> "blockchain"]
    /\ ret.val.audit_calls = 1


\* C33: ChroniclerService.log_action never raises: every call returns an
\* AuditResult with the action_id passed in.  The access check is the first
\* step; when it denies, the result is FAILED and the audit log step is not
\* called; when any step raises, the result is FAILED with the error
\* message; the result is SUCCESS only when the check allowed the action
\* and the audit log step completed.
C33_LogActionNeverRaises ==
    (ret.op = "log_action" /\ ret.kind # "called") =>
       LET c == ret.arg
           r == ret.val
           logged == \E i \in 1..Len(r.calls) : r.calls[i] = "log_action"
       IN /\ ret.kind = "value"
          /\ r.action_id = c.action_id
          /\ r.status \in {"SUCCESS", "FAILED"}
          /\ r.calls[1] = "check_action_allowed"
          /\ c.check = "denied" => r.status = "FAILED" /\ ~logged
          /\ (\/ c.check = "raises"
              \/ c.check = "allowed" /\ c.hash = "raises"
              \/ c.check = "allowed" /\ c.hash = "ok" /\ c.log = "raises") =>
                r.status = "FAILED" /\ r.error_message # None
          /\ r.status = "SUCCESS" =>
                c.check = "allowed" /\ logged /\ c.log = "ok"

\* A call whose check allowed the action and whose audit log step raised
\* has returned FAILED with the message and the action_id passed in.
C33_Witness ==
    /\ ret.op = "log_action"
    /\ ret.kind = "value"
    /\ ret.arg.check = "allowed"
    /\ ret.arg.hash = "ok"
    /\ ret.arg.log = "raises"
    /\ ret.val.status = "FAILED"
    /\ ret.val.error_message = "log_action"
    /\ ret.val.action_id = "act2"


\* ------------------------------------------------------ agents/mcp_server
\* fastapi.HTTPException(status_code, detail); a subclass of Exception.
HTTPException(status_code, detail) ==
    [status_code |-> status_code, detail |-> detail]

\* The body of POST /agents/execute from the return of execute_request on;
\* returned is what execute_request returned, of kind "none" for None.  A
\* None response raises HTTPException(404) inside the try, whose only
\* except clause, except Exception, catches it, logs it and raises
\* HTTPException(500) with its text; a Response is returned as the model.
execute_agent(returned) ==
    LET raised == IF returned.kind = "none"
                  THEN {HTTPException(404, "Agent not found")}
                  ELSE {}
    IN IF raised # {}
       THEN [kind |-> "raised", status_code |-> 500,
             detail |-> (CHOOSE e \in raised : TRUE).detail]
       ELSE [kind |-> "value", status_code |-> 200, detail |-> None]

\* The body of GET /agents/{agent_id}: HTTPException(404) when
\* get_agent_metadata returns None, which it does for an id that is not
\* registered; except HTTPException re-raises it.
get_agent(id) ==
    IF id \notin Keys(agents)
    THEN [kind |-> "raised",
          status_code |-> HTTPException(404, "Agent not found").status_code,
          detail |-> HTTPException(404, "Agent not found").detail]
    ELSE [kind |-> "value", status_code |-> 200, detail |-> None]

\* POST /agents/execute answers: execute_request has returned to the route
\* (ret holds what it returned), and the route runs to its end without
\* suspending.
ExecuteAgentRespond ==
    /\ ret.op = "execute_request"
    /\ ret.kind \in {"none", "value"}
    /\ ret' = [op |-> "execute_agent", arg |-> ret.log, kind |-> "http",
               val |-> execute_agent(ret),
               log |-> IF ret.kind = "none" THEN "Error executing agent"
                       ELSE None]
    /\ UNCHANGED <<managerVars, agentVars, historyVars, tasks,
                   next_request_id, supervisorVars>>

\* GET /agents/{agent_id}
GetAgent(id) ==
    /\ ret' = [op |-> "get_agent", arg |-> id, kind |-> "http",
               val |-> get_agent(id), log |-> None]
    /\ UNCHANGED <<managerVars, agentVars, historyVars, tasks,
                   next_request_id, supervisorVars>>

NextServer ==
    \/ \E o \in Objs : InitializeDone(o)
    \/ \E o \in Objs : InitializeFailed(o)
    \/ \E o \in Objs : RegisterAgent(o)
    \/ \E t \in Tasks, id \in AgentIds, inp \in Inputs :
          ExecuteRequest(t, id, inp)
    \/ \E t \in Tasks : ProcessRequestReturn(t)
    \/ ExecuteAgentRespond
    \/ \E id \in AgentIds : GetAgent(id)

SpecServer == Init /\ [][NextServer]_vars

\* ------------------------------------------------- decorators/chronicler
\* The calls of a function wrapped by @chronicler: what the function does
\* (returns a value or raises), what its value is (a value without
\* __dict__, an object that takes a new attribute, an object with __dict__
\* whose attribute assignment raises, such as an instance of a frozen
\* dataclass or a class), whether json.dumps accepts the logged data, and
\* the AuditConfig flags.
WrapperCalls ==
    [func : {"returns", "raises"},
     result : {"plain", "object", "sealed"},
     serializable : BOOLEAN,
     enabled : BOOLEAN, log_input : BOOLEAN, log_output : BOOLEAN]

\* ChroniclerClient.log_action: the hash of the json dump of the data and
\* the simulated transaction inside a try; the except clause returns FAILED.
client_log_action(serializable) ==
    IF serializable THEN "SUCCESS" ELSE "FAILED"

\* What the wrapper has done when it is left: the outcome the caller sees,
\* the records handed to log_action in order, and whether _audit_info has
\* been set on the result.
WrapperOutcome(kind, val, logs, audit_info) ==
    [kind |-> kind, val |-> val, logs |-> logs, audit_info |-> audit_info]

\* wrapper, the function the decorator returns: func is called inside a
\* try that also holds the logging of the result and the assignment of
\* _audit_info; the except clause logs the failure and raises the
\* exception it caught.
wrapper(c) ==
    LET failure == [record |-> "error",
                    status |-> client_log_action(
                                   ~c.log_input \/ c.serializable)]
        success == [record |-> "output",
                    status |-> client_log_action(
                                   (~c.log_input /\ ~c.log_output)
                                   \/ c.serializable)]
    IN IF c.func = "raises"
       THEN WrapperOutcome("raised", "FuncError",
                           IF c.enabled THEN <<failure>> ELSE <<>>, FALSE)
       ELSE IF ~c.enabled
       THEN WrapperOutcome("value", "result", <<>>, FALSE)
       ELSE IF c.result = "plain"
       THEN WrapperOutcome("value", "result", <<success>>, FALSE)
       ELSE IF c.result = "object"
       THEN WrapperOutcome("value", "result", <<success>>, TRUE)
       ELSE WrapperOutcome("raised", "AttributeError",
                           <<success, failure>>, FALSE)

\* The wrapped function is called: ret.arg are the inputs.
InitWrapper ==
    /\ Constructed
    /\ \E c \in WrapperCalls :
          ret = [op |-> "wrapper", arg |-> c, kind |-> "called",
                 val |-> None, log |-> None]

\* The call is left, by a return or by an exception.
Wrapper ==
    /\ ret.op = "wrapper"
    /\ ret.kind = "called"
    /\ ret' = [ret EXCEPT !.kind = wrapper(ret.arg).kind,
                          !.val = wrapper(ret.arg)]
    /\ UNCHANGED <<managerVars, agentVars, historyVars, tasks,
                   next_request_id, supervisorVars>>

NextWrapper == Wrapper

SpecWrapper == InitWrapper /\ [][NextWrapper]_vars

\* C32: a function wrapped by the chronicler decorator has the outcome of
\* the unwrapped function for every input, audit enabled or disabled: when
\* the function returns, the caller gets its value; when it raises, the
\* caller gets the same exception, and with audit enabled the failure has
\* been logged once.
C32_WrapperIsTransparent ==
    (ret.op = "wrapper" /\ ret.kind # "called") =>
       LET c == ret.arg
           r == ret.val
           failures == {i \in 1..Len(r.logs) : r.logs[i].record = "error"}
       IN /\ c.func = "returns" => r.kind = "value" /\ r.val = "result"
          /\ c.func = "raises" =>
                /\ r.kind = "raised"
                /\ r.val = "FuncError"
                /\ c.enabled => Cardinality(failures) = 1


\* C40: POST /agents/execute answers a request for an agent that
\* execute_request rejects (an unknown id, or an agent in Error) with HTTP
\* 404, as GET /agents/{agent_id} does for an unknown id, and not with
\* HTTP 500.
C40_RejectedAgentIs404 ==
    /\ (ret.op = "execute_agent"
        /\ ret.arg \in {"not found", "error state"}) =>
          ret.val.status_code = 404
    /\ (ret.op = "get_agent" /\ ret.arg \notin Keys(agents)) =>
          ret.val.status_code = 404

====
